---- MODULE Spec2Model ----
(***************************************************************************)
(* Model of src/backtesting.py: the walk-forward window generator, the     *)
(* transaction cost modeler and the run_comprehensive_backtest pipeline of *)
(* ComprehensiveBacktestingFramework.                                      *)
(*                                                                         *)
(* Data is abstracted to positions: a DataFrame of length n is the         *)
(* positions 0..n-1 and a slice is the pair <<lo, hi>> of the half-open    *)
(* range of positions it holds.  Money amounts are exact rationals in      *)
(* units of 1/Scale.                                                       *)
(***************************************************************************)
EXTENDS Integers, Sequences, FiniteSets, TLC

(* ------------------------------ bounds -------------------------------- *)
MaxN == 6
MinParam == 0 - 1
MaxParam == 3
MaxRows == 2
MaxRunN == 3
MaxRunParam == 2
MaxLen == 3

Lengths == 0..MaxN
Params == MinParam..MaxParam

VARIABLES
    data_len,               \* len(self.data)
    config,                 \* self.config: a mapping, keys may be missing
    gen,                    \* the generator object of generate_walk_forward_splits
    yielded,                \* the pairs the generator has yielded so far
    pc,                     \* position in run_comprehensive_backtest
    current,                \* (train_data, test_data) bound by the for loop
    calls,                  \* calls made on self.strategy, in order
    walk_forward_results,   \* the list built at lines 204-211
    strategy_trades,        \* self.strategy.trades
    stages,                 \* the stages entered so far, in order
    reads,                  \* reads of strategy.returns / strategy.trades
    raised,                 \* every exception raised so far, in order
    error,                  \* the exception that left the call, or "none"
    transaction_costs,      \* the value of estimate_transaction_costs, or NoValue
    strategy_returns,       \* the returns series handed to RiskDecomposition
    risk_analysis,          \* the value of decompose_risk, or NoValue
    result                  \* the returned value, or NoValue

vars == <<data_len, config, gen, yielded, pc, current, calls,
          walk_forward_results, strategy_trades, stages, reads, raised,
          error, transaction_costs, strategy_returns, risk_analysis, result>>

\* The absence of a value (None, or a name not yet bound).
NoValue == [kind |-> "none"]

Max(a, b) == IF a > b THEN a ELSE b
Min(a, b) == IF a < b THEN a ELSE b

(* ------------------------- positional slicing ------------------------- *)
\* One bound of a Python slice over a sequence of length n: a negative
\* bound counts from the end, and both are clipped to 0..n.
slice_bound(x, n) == IF x < 0 THEN Max(x + n, 0) ELSE Min(x, n)

\* data.iloc[a:b] over a frame of length n, as the half-open range of
\* positions it holds (<<lo, lo>> when empty).
iloc(a, b, n) ==
    LET lo == slice_bound(a, n)
        hi == slice_bound(b, n)
    IN  <<lo, Max(lo, hi)>>

slice_len(s) == s[2] - s[1]

(* --------------------------- WalkForwardAnalysis ---------------------- *)
\* Membership test of Python's range(0, stop, step) for a value cur that
\* is a multiple of step (step # 0).
in_range(cur, stop, step) == IF step > 0 THEN cur < stop ELSE cur > stop

\* The stop argument of the range at line 37.
range_stop(n, w) == n - w

\* The step argument of the range at line 37.
range_step_window(w, h) == w
range_step(w, h) == h

\* Lines 38-41: the four bounds computed from start.
window_bounds_gap(start, w, h) ==
    [train_start |-> start,
     train_end   |-> start + w,
     test_start  |-> start + w + 1,
     test_end    |-> start + w + 1 + h]
window_bounds(start, w, h) ==
    [train_start |-> start,
     train_end   |-> start + w,
     test_start  |-> start + w,
     test_end    |-> start + w + h]

\* Lines 38-46: the pair yielded for one value of start.
make_pair(start, n, w, h) ==
    LET b == window_bounds(start, w, h)
    IN  [start      |-> start,
         test_end   |-> b.test_end,
         train_data |-> iloc(b.train_start, b.train_end, n),
         test_data  |-> iloc(b.test_start, b.test_end, n)]

NewGenerator == [state |-> "created", cur |-> 0]

\* One next() on the generator: the range is built on the first call
\* (a zero step raises ValueError), then each call either yields the pair
\* for the next value of the range or ends the iteration.
gen_next(g, n, w, h) ==
    IF g.state \in {"exhausted", "raised"}
    THEN [kind |-> "stop", gen |-> g]
    ELSE IF g.state = "created" /\ range_step(w, h) = 0
    THEN [kind |-> "raise", exc |-> "ValueError",
          gen |-> [state |-> "raised", cur |-> g.cur]]
    ELSE IF in_range(g.cur, range_stop(n, w), range_step(w, h))
    THEN [kind |-> "yield", pair |-> make_pair(g.cur, n, w, h),
          gen |-> [state |-> "running", cur |-> g.cur + range_step(w, h)]]
    ELSE [kind |-> "stop", gen |-> [state |-> "exhausted", cur |-> g.cur]]

(* --------------------------- TransactionCostModeler ------------------- *)
\* Amounts are integers in units of 1/Scale; a quotient is the exact
\* fraction num/den, or what IEEE division by zero gives.
Scale == 10 ^ 4

RECURSIVE series_sum(_)
\* Series.sum(): the sum of the elements (0 for an empty Series).
series_sum(s) == IF s = <<>> THEN 0 ELSE Head(s) + series_sum(Tail(s))

column(trades, name) == [i \in 1..Len(trades) |-> trades[i][name]]

\* Line 179: trades['spread'] * trades['volume'], element-wise.
calculate_spread_cost(trades) ==
    [i \in 1..Len(trades) |-> trades[i].spread * trades[i].volume]

\* Lines 183, 187, 191: trades['volume'] * broker_config[key], element-wise.
volume_times_rate(trades, broker_config, key) ==
    [i \in 1..Len(trades) |-> trades[i].volume * broker_config[key]]

\* Line 170: sum(costs.values()) is 0 + Series + Series + Series + Series,
\* the element-wise sum of the four aligned Series: one total per row.
sum_costs(costs) ==
    [i \in 1..Len(costs.spread_cost) |->
        0 + costs.spread_cost[i] + costs.commission[i]
          + costs.slippage[i] + costs.market_impact[i]]

\* One float division x / d where x is in units of 1/Scale.
float_div(x, d) ==
    IF d # 0 THEN [kind |-> "float", num |-> x, den |-> d * Scale]
    ELSE IF x = 0 THEN [kind |-> "nan"]
    ELSE [kind |-> "inf"]

\* Line 174: Series / scalar divides every element and returns a Series.
series_div(s, d) ==
    [kind |-> "Series", values |-> [i \in 1..Len(s) |-> float_div(s[i], d)]]

\* Lines 162-175.  Building costs looks the three rates up in order; a
\* missing rate raises KeyError there.  Nothing looks at the value of the
\* total volume before dividing by it.
estimate_transaction_costs(broker_config, trades) ==
    IF \E k \in {"commission_rate", "slippage_rate", "market_impact_rate"} :
            k \notin DOMAIN broker_config
    THEN [kind |-> "raise", exc |-> "KeyError"]
    ELSE
        LET costs == [spread_cost   |-> calculate_spread_cost(trades),
                      commission    |-> volume_times_rate(trades, broker_config, "commission_rate"),
                      slippage      |-> volume_times_rate(trades, broker_config, "slippage_rate"),
                      market_impact |-> volume_times_rate(trades, broker_config, "market_impact_rate")]
            total_trade_volume == series_sum(column(trades, "volume"))
            total_cost == sum_costs(costs)
        IN  [kind |-> "return",
             value |-> [detailed_costs |-> costs,
                        total_cost_percentage |-> series_div(total_cost, total_trade_volume)]]

(* ------------------------------ configuration ------------------------- *)
window_size == config["window_size"]
forecast_horizon == config["forecast_horizon"]

RateKeys == {"commission_rate", "slippage_rate", "market_impact_rate"}
ConfigKeys == {"window_size", "forecast_horizon", "benchmark_returns", "broker_config"}

\* The rates of the example configuration (lines 287-289), in 1/Scale.
ExampleBroker ==
    [k \in RateKeys |->
        CASE k = "commission_rate" -> 10
          [] k = "slippage_rate" -> 5
          [] k = "market_impact_rate" -> 1]

FullConfig(w, h, broker) ==
    [k \in ConfigKeys |->
        CASE k = "window_size" -> w
          [] k = "forecast_horizon" -> h
          [] k = "benchmark_returns" -> "benchmark"
          [] k = "broker_config" -> broker]

\* A mapping without the keys in the set missing.
without(f, missing) == [k \in (DOMAIN f) \ missing |-> f[k]]

(* ---------------- the generator driven on its own --------------------- *)
InitRest ==
    /\ gen = NewGenerator
    /\ yielded = <<>>
    /\ current = NoValue
    /\ calls = <<>>
    /\ walk_forward_results = <<>>
    /\ stages = <<>>
    /\ reads = <<>>
    /\ raised = <<>>
    /\ error = "none"
    /\ transaction_costs = NoValue
    /\ risk_analysis = NoValue
    /\ result = NoValue

InitSplit ==
    /\ data_len \in Lengths
    /\ \E w \in Params, h \in Params : config = FullConfig(w, h, ExampleBroker)
    /\ strategy_returns = <<>>
    /\ strategy_trades = <<>>
    /\ pc = "split"
    /\ InitRest

SplitFrame == UNCHANGED <<data_len, config, pc, current, calls,
                          walk_forward_results, strategy_trades, stages,
                          reads, transaction_costs, result,
                   strategy_returns, risk_analysis>>

SplitYield ==
    /\ pc = "split"
    /\ LET r == gen_next(gen, data_len, window_size, forecast_horizon)
       IN  /\ r.kind = "yield"
           /\ gen' = r.gen
           /\ yielded' = Append(yielded, r.pair)
    /\ UNCHANGED <<raised, error>>
    /\ SplitFrame

SplitStop ==
    /\ pc = "split"
    /\ gen.state \in {"created", "running"}
    /\ LET r == gen_next(gen, data_len, window_size, forecast_horizon)
       IN  /\ r.kind = "stop"
           /\ gen' = r.gen
    /\ UNCHANGED <<yielded, raised, error>>
    /\ SplitFrame

SplitRaise ==
    /\ pc = "split"
    /\ LET r == gen_next(gen, data_len, window_size, forecast_horizon)
       IN  /\ r.kind = "raise"
           /\ gen' = r.gen
           /\ raised' = Append(raised, r.exc)
           /\ error' = r.exc
    /\ UNCHANGED yielded
    /\ SplitFrame

NextSplit == SplitYield \/ SplitStop \/ SplitRaise

SpecSplit == InitSplit /\ [][NextSplit]_vars

(* ---------------- the cost modeler called on its own ------------------ *)
Volumes == {0, 100, 200}
Spreads == {0, 100, 200}
TradeRows == [volume : Volumes, spread : Spreads]
Brokers == [commission_rate : {0, 10}, slippage_rate : {0, 5}, market_impact_rate : {0, 1}]

RECURSIVE ledgers(_)
\* Every ledger of at most n rows.
ledgers(n) ==
    IF n = 0 THEN {<<>>}
    ELSE LET shorter == ledgers(n - 1)
         IN  shorter \cup {Append(l, r) : l \in {x \in shorter : Len(x) = n - 1}, r \in TradeRows}

InitCost ==
    /\ data_len = 0
    /\ \E b \in Brokers : config = FullConfig(1, 1, b)
    /\ strategy_returns = <<>>
    /\ strategy_trades \in ledgers(MaxRows)
    /\ pc = "cost_call"
    /\ InitRest

EstimateCosts ==
    /\ pc = "cost_call"
    /\ LET r == estimate_transaction_costs(config["broker_config"], strategy_trades)
       IN  IF r.kind = "return"
           THEN /\ transaction_costs' = r.value
                /\ pc' = "cost_returned"
                /\ UNCHANGED <<raised, error>>
           ELSE /\ raised' = Append(raised, r.exc)
                /\ error' = r.exc
                /\ pc' = "cost_raised"
                /\ UNCHANGED transaction_costs
    /\ UNCHANGED <<data_len, config, gen, yielded, current, calls,
                   walk_forward_results, strategy_trades, stages, reads, result,
                   strategy_returns, risk_analysis>>

NextCost == EstimateCosts

SpecCost == InitCost /\ [][NextCost]_vars

(* ----------------------------- RiskDecomposition --------------------- *)
\* Returns are integers; a statistic is the exact fraction num/den
\* (den > 0), or what IEEE arithmetic gives where no number exists.
NaN == [kind |-> "nan"]
\* An infinity, of either sign.
Inf == [kind |-> "inf"]

\* The float a / b of two integers.
ratio(a, b) ==
    IF b = 0 THEN (IF a = 0 THEN NaN ELSE Inf)
    ELSE IF b < 0 THEN [kind |-> "float", num |-> 0 - a, den |-> 0 - b]
    ELSE [kind |-> "float", num |-> a, den |-> b]

\* The float x / y of two floats.
float_quot(x, y) ==
    IF x.kind = "nan" \/ y.kind = "nan" THEN NaN
    ELSE IF y.kind = "inf" THEN (IF x.kind = "inf" THEN NaN ELSE ratio(0, 1))
    ELSE IF x.kind = "inf" THEN Inf
    ELSE ratio(x.num * y.den, x.den * y.num)

\* n * sum(x*y) - sum(x) * sum(y): n times the sum of the products of the
\* deviations of x and y from their means.
cross_deviation(x, y) ==
    Len(x) * series_sum([i \in 1..Len(x) |-> x[i] * y[i]])
        - series_sum(x) * series_sum(y)

\* The divisor of an estimator over n observations with ddof delta
\* degrees of freedom removed.
divisor(n, ddof) == n - ddof

\* Line 107: np.cov(x, y)[0, 1].  np.cov stacks the two series (which
\* raises ValueError when their lengths differ) and divides the sum of
\* products of deviations by n - 1: its default is ddof = 1.
np_cov(x, y) ==
    IF Len(x) # Len(y) THEN [kind |-> "raise", exc |-> "ValueError"]
    ELSE [kind |-> "return",
          value |-> ratio(cross_deviation(x, y), Len(x) * divisor(Len(x), 1))]

\* Line 108: np.var(y) divides the sum of squared deviations by n: its
\* default is ddof = 0.
np_var(y) == ratio(cross_deviation(y, y), Len(y) * divisor(Len(y), 0))

\* Lines 105-109.  The quotient is a plain float division: nothing looks
\* at benchmark_variance first.
calculate_beta(returns, benchmark_returns) ==
    LET covariance == np_cov(returns, benchmark_returns)
        benchmark_variance == np_var(benchmark_returns)
    IN  IF covariance.kind = "raise" THEN covariance
        ELSE [kind |-> "return",
              value |-> float_quot(covariance.value, benchmark_variance)]

\* returns[i] - beta * benchmark_returns[i] for one observation.
residual(r, beta, b) ==
    IF beta.kind = "float"
    THEN ratio(r * beta.den - beta.num * b, beta.den)
    ELSE IF beta.kind = "nan" \/ b = 0 THEN NaN
    ELSE Inf

\* Lines 111-114, once calculate_beta has returned beta.
calculate_specific_risk(returns, benchmark_returns, beta) ==
    [i \in 1..Len(returns) |-> residual(returns[i], beta, benchmark_returns[i])]

\* Lines 116-118: np.std(returns), the square root of np.var(returns).
calculate_total_risk(returns) == [kind |-> "sqrt", of |-> np_var(returns)]

\* Lines 120-126: (1 / n) * returns[i] / np.std(returns), element-wise.
calculate_risk_contribution(returns) ==
    LET variance == np_var(returns)
    IN  [i \in 1..Len(returns) |->
            IF variance.kind = "float" /\ variance.num # 0
            THEN [kind |-> "float_over_sqrt", num |-> returns[i],
                  den |-> Len(returns), of |-> variance]
            ELSE IF returns[i] = 0 \/ variance.kind = "nan" THEN NaN
            ELSE Inf]

\* Lines 94-103: the four entries are computed in order; the first call of
\* calculate_beta is where a ValueError of np.cov leaves the method.
decompose_risk(returns, benchmark_returns) ==
    LET beta == calculate_beta(returns, benchmark_returns)
    IN  IF beta.kind = "raise" THEN beta
        ELSE [kind |-> "return",
              value |-> [market_risk       |-> beta.value,
                         specific_risk     |-> calculate_specific_risk(returns, benchmark_returns, beta.value),
                         total_risk        |-> calculate_total_risk(returns),
                         risk_contribution |-> calculate_risk_contribution(returns)]]

(* -------------- the risk decomposition called on its own -------------- *)
ReturnValues == {0 - 1, 0, 1}

\* Every return series of 1..n observations.
series_upto(n) == UNION {[1..k -> ReturnValues] : k \in 1..n}

InitRisk ==
    /\ data_len = 0
    /\ strategy_returns \in series_upto(MaxLen)
    /\ \E b \in series_upto(MaxLen) :
          config = [FullConfig(1, 1, ExampleBroker) EXCEPT !["benchmark_returns"] = b]
    /\ strategy_trades = <<>>
    /\ pc = "risk_call"
    /\ InitRest

DecomposeRisk ==
    /\ pc = "risk_call"
    /\ LET r == decompose_risk(strategy_returns, config["benchmark_returns"])
       IN  IF r.kind = "return"
           THEN /\ risk_analysis' = r.value
                /\ pc' = "risk_returned"
                /\ UNCHANGED <<raised, error>>
           ELSE /\ raised' = Append(raised, r.exc)
                /\ error' = r.exc
                /\ pc' = "risk_raised"
                /\ UNCHANGED risk_analysis
    /\ UNCHANGED <<data_len, config, gen, yielded, current, calls,
                   walk_forward_results, strategy_trades, stages, reads,
                   transaction_costs, strategy_returns, result>>

NextRisk == DecomposeRisk

SpecRisk == InitRisk /\ [][NextRisk]_vars

(* --------------------- run_comprehensive_backtest --------------------- *)
StageOrder == <<"walk_forward", "monte_carlo", "risk", "validation", "cost">>

\* The order of the numbered blocks of lines 197-245: where control goes
\* when the block named at has finished.
next_stage_swapped(at) ==
    CASE at = "walk_forward" -> "risk"
      [] at = "risk" -> "monte_carlo"
      [] at = "monte_carlo" -> "validation"
      [] at = "validation" -> "cost"
      [] at = "cost" -> "compile"
next_stage(at) ==
    CASE at = "walk_forward" -> "monte_carlo"
      [] at = "monte_carlo" -> "risk"
      [] at = "risk" -> "validation"
      [] at = "validation" -> "cost"
      [] at = "cost" -> "compile"

\* There is no try/except in the method: an exception raised at any point
\* leaves the call at once, carrying that exception.
propagate_swallowed(at, exc) ==
    [pc |-> IF at \in {"train", "simulate"} THEN "walk_forward" ELSE next_stage(at),
     error |-> "none"]
propagate(at, exc) == [pc |-> "error", error |-> exc]

\* Line 211: walk_forward_results.append(period_results).
append_result_front(results, period_results) == <<period_results>> \o results
append_result(results, period_results) == Append(results, period_results)

\* A read of self.strategy.returns or self.strategy.trades, with how far
\* the walk-forward loop had got when it happened.
read_of(attr, stage) ==
    [attr |-> attr, stage |-> stage,
     simulated |-> Len(walk_forward_results),
     loop |-> gen.state]

Raise(at, exc) ==
    /\ raised' = Append(raised, exc)
    /\ pc' = propagate(at, exc).pc
    /\ error' = propagate(at, exc).error

\* What the strategy's trade ledger grows by in one simulate call.
RunTradeRows == [volume : {0, 100}, spread : {100}]

MissingSets == {m \in SUBSET (ConfigKeys \cup RateKeys) : Cardinality(m) <= 1}

Init ==
    /\ data_len \in 0..MaxRunN
    /\ \E w \in MinParam..MaxRunParam, h \in MinParam..MaxRunParam, m \in MissingSets :
          config = without(FullConfig(w, h, without(ExampleBroker, m)), m)
    /\ strategy_returns = <<>>
    /\ strategy_trades = <<>>
    /\ pc = "init"
    /\ InitRest

\* Lines 198-204: the two config lookups, the analysis object, the empty list.
Begin ==
    /\ pc = "init"
    /\ IF {"window_size", "forecast_horizon"} \subseteq DOMAIN config
       THEN /\ gen' = NewGenerator
            /\ walk_forward_results' = <<>>
            /\ stages' = Append(stages, "walk_forward")
            /\ pc' = "walk_forward"
            /\ UNCHANGED <<raised, error>>
       ELSE /\ Raise("walk_forward", "KeyError")
            /\ UNCHANGED <<gen, walk_forward_results, stages>>
    /\ UNCHANGED <<data_len, config, yielded, current, calls, strategy_trades,
                   reads, transaction_costs, result,
                   strategy_returns, risk_analysis>>

\* Line 205: the for statement asks the generator for the next pair.
LoopNext ==
    /\ pc = "walk_forward"
    /\ LET r == gen_next(gen, data_len, window_size, forecast_horizon)
       IN  /\ gen' = r.gen
           /\ CASE r.kind = "yield" ->
                    /\ yielded' = Append(yielded, r.pair)
                    /\ current' = r.pair
                    /\ pc' = "train"
                    /\ UNCHANGED <<raised, error>>
                [] r.kind = "stop" ->
                    /\ pc' = next_stage("walk_forward")
                    /\ UNCHANGED <<yielded, current, raised, error>>
                [] r.kind = "raise" ->
                    /\ Raise("walk_forward", r.exc)
                    /\ UNCHANGED <<yielded, current>>
    /\ UNCHANGED <<data_len, config, calls, walk_forward_results,
                   strategy_trades, stages, reads, transaction_costs, result,
                   strategy_returns, risk_analysis>>

\* Line 207: self.strategy.train(train_data), which may raise.
Train ==
    /\ pc = "train"
    /\ calls' = Append(calls, [op |-> "train", data |-> current.train_data])
    /\ \E ok \in BOOLEAN :
          IF ok THEN pc' = "simulate" /\ UNCHANGED <<raised, error>>
          ELSE Raise("train", "TrainingError")
    /\ UNCHANGED <<data_len, config, gen, yielded, current,
                   walk_forward_results, strategy_trades, stages, reads,
                   transaction_costs, result,
                   strategy_returns, risk_analysis>>

\* Lines 210-211: self.strategy.simulate(test_data), which may raise; the
\* strategy adds to its own ledger, and the value returned is appended.
Simulate ==
    /\ pc = "simulate"
    /\ calls' = Append(calls, [op |-> "simulate", data |-> current.test_data])
    /\ \E ok \in BOOLEAN :
          IF ok
          THEN /\ \E row \in RunTradeRows : strategy_trades' = Append(strategy_trades, row)
               /\ walk_forward_results' =
                     append_result(walk_forward_results,
                                   [call |-> Len(calls) + 1, data |-> current.test_data])
               /\ pc' = "walk_forward"
               /\ UNCHANGED <<raised, error>>
          ELSE /\ Raise("simulate", "SimulationError")
               /\ UNCHANGED <<strategy_trades, walk_forward_results>>
    /\ UNCHANGED <<data_len, config, gen, yielded, current, stages, reads,
                   transaction_costs, result,
                   strategy_returns, risk_analysis>>

\* Lines 214-215: MonteCarloSimulation(self.strategy.returns).simulate().
MonteCarlo ==
    /\ pc = "monte_carlo"
    /\ stages' = Append(stages, "monte_carlo")
    /\ reads' = Append(reads, read_of("returns", "monte_carlo"))
    /\ \E ok \in BOOLEAN :
          IF ok THEN pc' = next_stage("monte_carlo") /\ UNCHANGED <<raised, error>>
          ELSE Raise("monte_carlo", "Exception")
    /\ UNCHANGED <<data_len, config, gen, yielded, current, calls,
                   walk_forward_results, strategy_trades, transaction_costs, result,
                   strategy_returns, risk_analysis>>

\* Lines 218-222: the arguments are evaluated left to right (returns, then
\* config['benchmark_returns']), then decompose_risk runs.
Risk ==
    /\ pc = "risk"
    /\ reads' = Append(reads, read_of("returns", "risk"))
    /\ IF "benchmark_returns" \notin DOMAIN config
       THEN /\ Raise("risk", "KeyError")
            /\ UNCHANGED stages
       ELSE /\ stages' = Append(stages, "risk")
            /\ \E ok \in BOOLEAN :
                  IF ok THEN pc' = next_stage("risk") /\ UNCHANGED <<raised, error>>
                  ELSE Raise("risk", "Exception")
    /\ UNCHANGED <<data_len, config, gen, yielded, current, calls,
                   walk_forward_results, strategy_trades, transaction_costs, result,
                   strategy_returns, risk_analysis>>

\* Lines 225-230: the three groups of tests on self.strategy.returns.
Validation ==
    /\ pc = "validation"
    /\ stages' = Append(stages, "validation")
    /\ reads' = Append(reads, read_of("returns", "validation"))
    /\ \E ok \in BOOLEAN :
          IF ok THEN pc' = next_stage("validation") /\ UNCHANGED <<raised, error>>
          ELSE Raise("validation", "Exception")
    /\ UNCHANGED <<data_len, config, gen, yielded, current, calls,
                   walk_forward_results, strategy_trades, transaction_costs, result,
                   strategy_returns, risk_analysis>>

\* Lines 233-234: config['broker_config'], then the cost estimate over
\* self.strategy.trades.  (stages records a block once its component has
\* been constructed, so a failed config lookup does not enter it.)
Cost ==
    /\ pc = "cost"
    /\ IF "broker_config" \notin DOMAIN config
       THEN /\ Raise("cost", "KeyError")
            /\ UNCHANGED <<stages, reads, transaction_costs>>
       ELSE /\ stages' = Append(stages, "cost")
            /\ reads' = Append(reads, read_of("trades", "cost"))
            /\ LET r == estimate_transaction_costs(config["broker_config"], strategy_trades)
               IN  IF r.kind = "return"
                   THEN /\ transaction_costs' = r.value
                        /\ pc' = next_stage("cost")
                        /\ UNCHANGED <<raised, error>>
                   ELSE /\ Raise("cost", r.exc)
                        /\ UNCHANGED transaction_costs
    /\ UNCHANGED <<data_len, config, gen, yielded, current, calls,
                   walk_forward_results, strategy_trades, result,
                   strategy_returns, risk_analysis>>

\* Lines 237-245: the results dictionary is built and returned.
Compile ==
    /\ pc = "compile"
    /\ result' = [walk_forward_results   |-> walk_forward_results,
                  monte_carlo_simulation |-> "mc_results",
                  risk_analysis          |-> "risk_analysis",
                  statistical_validation |-> "statistical_tests",
                  transaction_costs      |-> transaction_costs]
    /\ pc' = "done"
    /\ UNCHANGED <<data_len, config, gen, yielded, current, calls,
                   walk_forward_results, strategy_trades, stages, reads,
                   raised, error, transaction_costs,
                   strategy_returns, risk_analysis>>

Next ==
    \/ Begin
    \/ LoopNext
    \/ Train
    \/ Simulate
    \/ MonteCarlo
    \/ Risk
    \/ Validation
    \/ Cost
    \/ Compile

Spec == Init /\ [][Next]_vars

(* ------------------------------- claims ------------------------------- *)
ValidParams == window_size >= 1 /\ forecast_horizon >= 1

\* C1: for W >= 1 and H >= 1 no yielded pair has a test range that runs
\* past the end of the series: start + W + H <= N for every yielded pair,
\* and so no yielded test slice is shorter than H.
C1_NoPartialWindow ==
    ValidParams =>
        \A i \in 1..Len(yielded) :
            /\ yielded[i].test_end <= data_len
            /\ slice_len(yielded[i].test_data) = forecast_horizon

\* C2: for W >= 1 and H >= 1 a full iteration yields floor((N - W) / H)
\* pairs when N > W and no pair otherwise.
C2_PairCount ==
    (ValidParams /\ gen.state = "exhausted") =>
        Len(yielded) = IF data_len > window_size
                       THEN (data_len - window_size) \div forecast_horizon
                       ELSE 0

\* C3: for W >= 1 and H >= 1 the i-th yielded pair (from 0) has the train
\* slice [i*H, i*H + W) and a test slice that starts exactly at i*H + W,
\* so the test slice follows its train slice with no gap and no overlap.
C3_TrainThenTest ==
    ValidParams =>
        \A i \in 1..Len(yielded) :
            LET p == yielded[i]
                s == (i - 1) * forecast_horizon
            IN  /\ p.train_data = <<s, s + window_size>>
                /\ p.test_data[1] = s + window_size
                /\ p.train_data[2] = p.test_data[1]
                /\ slice_len(p.test_data) >= 1

C3_Witness ==
    /\ ValidParams
    /\ Len(yielded) >= 2
    /\ gen.state = "exhausted"

\* C8: with W <= 0 or H <= 0 no pair is ever yielded, and once the
\* generator has been advanced the caller has been signalled an error
\* (never a silent empty sequence).  Any exception is accepted as the
\* InvalidConfiguration signal here.
C8_InvalidParamsRejected ==
    (window_size <= 0 \/ forecast_horizon <= 0) =>
        /\ yielded = <<>>
        /\ gen.state # "created" => error # "none"

total_volume == series_sum(column(strategy_trades, "volume"))

\* The sum over all rows of the four cost components, in units of 1/Scale.
aggregate_cost ==
    LET b == config["broker_config"]
    IN  series_sum([i \in 1..Len(strategy_trades) |->
            strategy_trades[i].spread * strategy_trades[i].volume
            + strategy_trades[i].volume * b["commission_rate"]
            + strategy_trades[i].volume * b["slippage_rate"]
            + strategy_trades[i].volume * b["market_impact_rate"]])

\* C9: for a ledger with positive total volume, total_cost_percentage is a
\* single number, equal to the sum over all rows of the four cost
\* components divided by the sum of volume over all rows.  (A Series
\* holding exactly one element is accepted as a single number here.)
C9_AggregatePercentage ==
    (pc \in {"cost_returned", "cost_raised"} /\ total_volume > 0) =>
        /\ pc = "cost_returned"
        /\ LET p == transaction_costs.total_cost_percentage
               numbers == IF p.kind = "Series" THEN p.values ELSE <<p>>
           IN  /\ Len(numbers) = 1
               /\ numbers[1].kind = "float"
               /\ numbers[1].den = total_volume * Scale
               /\ numbers[1].num = aggregate_cost

\* C10: for a ledger of total volume zero (an empty ledger included) the
\* call signals an error and returns no cost breakdown.  Any exception is
\* accepted as the DegenerateInputError signal here.
C10_ZeroVolumeRejected ==
    (pc \in {"cost_returned", "cost_raised"} /\ total_volume = 0) =>
        /\ pc = "cost_raised"
        /\ error # "none"
        /\ transaction_costs = NoValue

AnalysisStages == {"monte_carlo", "risk", "validation", "cost"}

\* C4: the stages are entered once each in the order walk-forward, Monte
\* Carlo, risk decomposition, statistical validation, transaction costs,
\* a returned run has been through all five, and every read of
\* strategy.returns or strategy.trades by an analysis stage happens after
\* the generator is exhausted and every yielded window has been simulated.
C4_StagesInOrder ==
    /\ Len(stages) <= Len(StageOrder)
    /\ \A i \in 1..Len(stages) : stages[i] = StageOrder[i]
    /\ \A i \in 1..Len(reads) :
          /\ reads[i].loop = "exhausted"
          /\ reads[i].simulated = Len(yielded)
    /\ pc = "done" => (stages = StageOrder /\ result # NoValue /\ error = "none")

C4_Witness ==
    /\ pc = "done"
    /\ Len(yielded) >= 2
    /\ Len(reads) = 4

\* C5: the calls on the strategy are train(train slice of pair 1),
\* simulate(test slice of pair 1), train(train slice of pair 2), ... with a
\* pair yielded only after both calls of the pair before it, and
\* walk_forward_results holds the value of the i-th simulate call at
\* position i, so that once the loop has ended its length is the number of
\* pairs yielded.
C5_TrainSimulatePerWindow ==
    /\ Len(calls) <= 2 * Len(yielded)
    /\ Len(calls) >= 2 * (Len(yielded) - 1)
    /\ \A k \in 1..Len(calls) :
          calls[k] = IF k % 2 = 1
                     THEN [op |-> "train", data |-> yielded[(k + 1) \div 2].train_data]
                     ELSE [op |-> "simulate", data |-> yielded[k \div 2].test_data]
    /\ Len(walk_forward_results) <= Len(yielded)
    /\ \A i \in 1..Len(walk_forward_results) :
          walk_forward_results[i] = [call |-> 2 * i, data |-> yielded[i].test_data]
    /\ (error = "none" /\ pc \notin {"init", "train", "simulate"}) =>
          Len(walk_forward_results) = Len(yielded)
    /\ result # NoValue =>
          /\ result.walk_forward_results = walk_forward_results
          /\ Len(result.walk_forward_results) = Len(yielded)

C5_Witness ==
    /\ pc = "monte_carlo"
    /\ Len(walk_forward_results) >= 2
    /\ Len(calls) = 2 * Len(yielded)

\* C6: as soon as anything raises, the run is over with that exception:
\* it is the only exception raised, no report exists, and nothing
\* (no stage, no strategy call) happens afterwards.
C6_FirstFailureEndsRun ==
    /\ [](raised # <<>> =>
            /\ pc = "error"
            /\ Len(raised) = 1
            /\ error = raised[1]
            /\ result = NoValue)
    /\ [][raised # <<>> => UNCHANGED vars]_vars

C6_Witness ==
    /\ pc = "error"
    /\ error = "SimulationError"
    /\ Len(yielded) >= 2
    /\ result = NoValue

config_incomplete ==
    \/ ConfigKeys \ DOMAIN config # {}
    \/ "broker_config" \in DOMAIN config /\ RateKeys \ DOMAIN config["broker_config"] # {}

\* C7: with a key missing from the configuration the run never calls
\* strategy.train or strategy.simulate, never executes an analysis
\* component and never returns a report.  Any exception is accepted as the
\* InvalidConfiguration signal here.
C7_MissingKeyFailsFast ==
    config_incomplete =>
        /\ calls = <<>>
        /\ \A i \in 1..Len(stages) : stages[i] \notin AnalysisStages
        /\ pc # "done"

\* C13: for W >= 1, H >= 1 and N > W every yielded train slice holds
\* exactly W positions, every yielded test slice (as clipped to the series)
\* is non-empty, the first test slice starts at W and each later one starts
\* where the one before it ends (so they are disjoint and in increasing
\* order), and after a full iteration the last one ends at N: together the
\* test slices hold every position of W..N-1 exactly once.
C13_TestSlicesPartitionTail ==
    (ValidParams /\ data_len > window_size) =>
        /\ \A i \in 1..Len(yielded) :
              /\ slice_len(yielded[i].train_data) = window_size
              /\ slice_len(yielded[i].test_data) >= 1
              /\ yielded[i].test_data[1] =
                    IF i = 1 THEN window_size ELSE yielded[i - 1].test_data[2]
        /\ gen.state = "exhausted" =>
              /\ Len(yielded) >= 1
              /\ yielded[Len(yielded)].test_data[2] = data_len
              /\ \A q \in window_size..(data_len - 1) :
                    Cardinality({i \in 1..Len(yielded) :
                        yielded[i].test_data[1] <= q /\ q < yielded[i].test_data[2]}) = 1

C13_Witness ==
    /\ ValidParams
    /\ gen.state = "exhausted"
    /\ Len(yielded) >= 2
    /\ yielded[Len(yielded)].test_end > data_len
    /\ window_size # forecast_horizon

benchmark_returns == config["benchmark_returns"]
risk_done == pc \in {"risk_returned", "risk_raised"}

\* C11: for a series of at least 2 observations with non-zero variance
\* used as both returns and benchmark_returns, the beta reported is
\* exactly 1 and the specific risk is the all-zero series of that length.
C11_IdenticalSeriesBetaOne ==
    (/\ risk_done
     /\ Len(strategy_returns) >= 2
     /\ strategy_returns = benchmark_returns
     /\ cross_deviation(benchmark_returns, benchmark_returns) # 0) =>
        /\ pc = "risk_returned"
        /\ risk_analysis.market_risk.kind = "float"
        /\ risk_analysis.market_risk.num = risk_analysis.market_risk.den
        /\ Len(risk_analysis.specific_risk) = Len(strategy_returns)
        /\ \A i \in 1..Len(strategy_returns) :
              /\ risk_analysis.specific_risk[i].kind = "float"
              /\ risk_analysis.specific_risk[i].num = 0

\* C12: for a benchmark of variance exactly zero (and series of equal
\* length of at least 2) decompose_risk signals an error and returns no
\* risk report.  Any exception is accepted as the DegenerateInputError
\* signal here.
C12_ZeroVarianceRejected ==
    (/\ risk_done
     /\ Len(strategy_returns) >= 2
     /\ Len(strategy_returns) = Len(benchmark_returns)
     /\ cross_deviation(benchmark_returns, benchmark_returns) = 0) =>
        /\ pc = "risk_raised"
        /\ error # "none"
        /\ risk_analysis = NoValue

====
